---- MODULE Spec2Model ----
(***************************************************************************)
(* Model of corsspoint-cover-generator.py: the Floyd-Steinberg dithering   *)
(* pass floyd_steinberg_dither and the command line pipeline               *)
(* main / convert_to_ereader_bmp around it.                                *)
(*                                                                         *)
(* Samples of img_array are Python floats.  Every value the pass produces  *)
(* from integer samples is a multiple of 16^-d, where d = 2*y + x is the   *)
(* number of diffusion steps that can precede cell (y, x).  A double holds *)
(* such a value exactly while d <= 11, which covers every grid of the      *)
(* model, so the floats are modelled exactly as fixed-point numbers        *)
(* <<whole, hi, lo>> = whole + hi/2^24 + lo/2^48 with 0 <= hi, lo < 2^24.  *)
(***************************************************************************)
EXTENDS Integers, Sequences, FiniteSets, TLC

(* ------------------------------ bounds -------------------------------- *)
MaxH == 3
MaxW == 5
MaxCells == 6
FairCells == 4
target_width == 2
target_height == 2

(* ------------------------- float arithmetic --------------------------- *)
Limb == 2^24

Num(n) == <<n, 0, 0>>

\* whole + num/den for a power of two den that divides Limb
Frac(whole, num, den) == <<whole, num * (Limb \div den), 0>>

Add(u, v) ==
    LET lo == u[3] + v[3]
        hi == u[2] + v[2] + (lo \div Limb)
    IN  <<u[1] + v[1] + (hi \div Limb), hi % Limb, lo % Limb>>

SubInt(u, n) == <<u[1] - n, u[2], u[3]>>

MulK(u, k) ==
    LET lo == u[3] * k
        hi == u[2] * k + (lo \div Limb)
    IN  <<u[1] * k + (hi \div Limb), hi % Limb, lo % Limb>>

Div16(u) ==
    <<u[1] \div 16,
      (u[1] % 16) * (Limb \div 16) + (u[2] \div 16),
      (u[2] % 16) * (Limb \div 16) + (u[3] \div 16)>>

\* u > n for an integer n
GtInt(u, n) == u[1] > n \/ (u[1] = n /\ (u[2] > 0 \/ u[3] > 0))

\* u <= v
Leq(u, v) ==
    \/ u[1] < v[1]
    \/ u[1] = v[1] /\ u[2] < v[2]
    \/ u[1] = v[1] /\ u[2] = v[2] /\ u[3] <= v[3]

(* ------------------------------ grids --------------------------------- *)
Cells(h, w) == (0 .. h - 1) \X (0 .. w - 1)

Samples == {0, 100, 127, 200, 255}

Uniform(h, w, v) == [shape |-> <<h, w>>, data |-> [c \in Cells(h, w) |-> v]]

\* the input grids of shape h x w: every grid when it has at most full
\* cells, the uniform grids otherwise
InputGrids(h, w, full) ==
    IF h * w <= full
    THEN { [shape |-> <<h, w>>, data |-> d] : d \in [Cells(h, w) -> Samples] }
    ELSE { Uniform(h, w, v) : v \in Samples }

\* the grids the resize step can hand to the dithering pass
ResizedSamples == {0, 127, 200}

ResizedGrids(h, w) ==
    { [shape |-> <<h, w>>, data |-> d] : d \in [Cells(h, w) -> ResizedSamples] }

NoImage == [shape |-> <<0, 0>>, data |-> <<>>]

(* ------------------------------ paths --------------------------------- *)
\* a path is a sequence of one-character strings
PathSet ==
    { <<"a", ".", "p">>,
      <<"a">>,
      <<".", "a">>,
      <<"d", ".", "x", "/", "a">>,
      <<"a", ".", "b", ".", "p">>,
      <<"d", "/", ".", "a", ".", "p">> }

Prog == <<"g">>

ArgvSet ==
    {<<Prog>>} \cup { <<Prog, p>> : p \in PathSet }
               \cup { <<Prog, <<"a", ".", "p">>, <<"a">>>> }

Suffix == <<"_", "d", "i", "t", "h", "e", "r", "e", "d", ".", "b", "m", "p">>

\* 1-based str.rfind, 0 when ch does not occur
rfind(p, ch) ==
    LET S == { i \in 1 .. Len(p) : p[i] = ch }
    IN  IF S = {} THEN 0 ELSE CHOOSE i \in S : \A j \in S : j <= i

\* the extension is taken from the first dot instead of the last
splitext_first_dot(p) ==
    LET S == { i \in 1 .. Len(p) : p[i] = "." }
        dotIndex == IF S = {} THEN 0 ELSE CHOOSE i \in S : \A j \in S : i <= j
    IN  IF dotIndex > 1
        THEN <<SubSeq(p, 1, dotIndex - 1), SubSeq(p, dotIndex, Len(p))>>
        ELSE <<p, <<>>>>

\* os.path.splitext: the extension starts at the last dot of the last
\* component, unless only dots precede it there
splitext(p) ==
    LET sepIndex == rfind(p, "/")
        dotIndex == rfind(p, ".")
    IN  IF dotIndex > sepIndex /\ \E i \in sepIndex + 1 .. dotIndex - 1 : p[i] # "."
        THEN <<SubSeq(p, 1, dotIndex - 1), SubSeq(p, dotIndex, Len(p))>>
        ELSE <<p, <<>>>>

default_output_path(input_path) == splitext(input_path)[1] \o Suffix

VARIABLES pc, image, img_array, height, width, y, x, binary_image,
          order, dropped,
          argv, fs, input_path, mode, output_path, saved, stdout, traceback

dvars == <<image, img_array, height, width, y, x, binary_image, order, dropped>>
mvars == <<argv, fs, input_path, mode, output_path, saved, stdout, traceback>>
vars == <<pc, image, img_array, height, width, y, x, binary_image, order, dropped,
          argv, fs, input_path, mode, output_path, saved, stdout, traceback>>

(* ----------------------- floyd_steinberg_dither ----------------------- *)
\* off by one: the last element of the range is never taken
InRange_off_by_one(i, n) == i + 1 < n

\* range(n) still has an element at i
InRange(i, n) == i < n

\* threshold comparison >= instead of >
new_pixel_geq(old_pixel) == IF old_pixel[1] >= 127 THEN 255 ELSE 0

\* polarity inverted
new_pixel_inverted(old_pixel) == IF GtInt(old_pixel, 127) THEN 0 ELSE 255

\* white written as 1 instead of 255
new_pixel_bit(old_pixel) == IF GtInt(old_pixel, 127) THEN 1 ELSE 0


new_pixel(old_pixel) == IF GtInt(old_pixel, 127) THEN 255 ELSE 0

error(old_pixel) == SubInt(old_pixel, new_pixel(old_pixel))

\* img_array[c] += err * k/16
AddTo(arr, c, err, k) == [arr EXCEPT ![c] = Add(@, Div16(MulK(err, k)))]

\* the 7/16 share goes to the left neighbour instead of the right one
Diffuse_left(arr, h, w, cy, cx, err) ==
    LET a1 == IF cx > 0 THEN AddTo(arr, <<cy, cx - 1>>, err, 7) ELSE arr
        a2 == IF cy + 1 < h /\ cx > 0 THEN AddTo(a1, <<cy + 1, cx - 1>>, err, 3) ELSE a1
        a3 == IF cy + 1 < h THEN AddTo(a2, <<cy + 1, cx>>, err, 5) ELSE a2
        a4 == IF cy + 1 < h /\ cx + 1 < w THEN AddTo(a3, <<cy + 1, cx + 1>>, err, 1) ELSE a3
    IN  a4

\* the x > 0 test is missing: index -1 wraps to the last column
Diffuse_wrap(arr, h, w, cy, cx, err) ==
    LET a1 == IF cx + 1 < w THEN AddTo(arr, <<cy, cx + 1>>, err, 7) ELSE arr
        a2 == IF cy + 1 < h THEN AddTo(a1, <<cy + 1, (cx - 1) % w>>, err, 3) ELSE a1
        a3 == IF cy + 1 < h THEN AddTo(a2, <<cy + 1, cx>>, err, 5) ELSE a2
        a4 == IF cy + 1 < h /\ cx + 1 < w THEN AddTo(a3, <<cy + 1, cx + 1>>, err, 1) ELSE a3
    IN  a4

\* the weights 3/16 and 5/16 are exchanged
Diffuse_swapped(arr, h, w, cy, cx, err) ==
    LET a1 == IF cx + 1 < w THEN AddTo(arr, <<cy, cx + 1>>, err, 7) ELSE arr
        a2 == IF cy + 1 < h /\ cx > 0 THEN AddTo(a1, <<cy + 1, cx - 1>>, err, 5) ELSE a1
        a3 == IF cy + 1 < h THEN AddTo(a2, <<cy + 1, cx>>, err, 3) ELSE a2
        a4 == IF cy + 1 < h /\ cx + 1 < w THEN AddTo(a3, <<cy + 1, cx + 1>>, err, 1) ELSE a3
    IN  a4

\* the below-right neighbour is forgotten
Diffuse_no_below_right(arr, h, w, cy, cx, err) ==
    LET a1 == IF cx + 1 < w THEN AddTo(arr, <<cy, cx + 1>>, err, 7) ELSE arr
        a2 == IF cy + 1 < h /\ cx > 0 THEN AddTo(a1, <<cy + 1, cx - 1>>, err, 3) ELSE a1
        a3 == IF cy + 1 < h THEN AddTo(a2, <<cy + 1, cx>>, err, 5) ELSE a2
    IN  a3


Diffuse(arr, h, w, cy, cx, err) ==
    LET a1 == IF cx + 1 < w THEN AddTo(arr, <<cy, cx + 1>>, err, 7) ELSE arr
        a2 == IF cy + 1 < h /\ cx > 0 THEN AddTo(a1, <<cy + 1, cx - 1>>, err, 3) ELSE a1
        a3 == IF cy + 1 < h THEN AddTo(a2, <<cy + 1, cx>>, err, 5) ELSE a2
        a4 == IF cy + 1 < h /\ cx + 1 < w THEN AddTo(a3, <<cy + 1, cx + 1>>, err, 1) ELSE a3
    IN  a4

\* sixteenths of the error that have no neighbour to go to at (cy, cx)
SkippedWeight(h, w, cy, cx) ==
    (IF cx + 1 < w THEN 0 ELSE 7)
    + (IF cy + 1 < h /\ cx > 0 THEN 0 ELSE 3)
    + (IF cy + 1 < h THEN 0 ELSE 5)
    + (IF cy + 1 < h /\ cx + 1 < w THEN 0 ELSE 1)

uint8(v) == v[1] % 256

convert1(p) == IF p > 128 THEN 255 ELSE 0

\* lines 19-20: float copy of the image and its shape
Enter ==
    /\ pc = "enter"
    /\ img_array' = [c \in DOMAIN image.data |-> Num(image.data[c])]
    /\ height' = image.shape[1]
    /\ width' = image.shape[2]
    /\ y' = 0
    /\ pc' = "outer"
    /\ UNCHANGED <<image, x, binary_image, order, dropped>>
    /\ UNCHANGED mvars

\* line 23: the outer loop takes its next row
OuterNext ==
    /\ pc = "outer"
    /\ InRange(y, height)
    /\ x' = 0
    /\ pc' = "inner"
    /\ UNCHANGED <<image, img_array, height, width, y, binary_image, order, dropped>>
    /\ UNCHANGED mvars

\* line 23: the outer loop is exhausted
OuterExit ==
    /\ pc = "outer"
    /\ ~InRange(y, height)
    /\ pc' = "convert"
    /\ UNCHANGED dvars
    /\ UNCHANGED mvars

\* lines 24-41: one iteration of the inner loop
Visit ==
    /\ pc = "inner"
    /\ InRange(x, width)
    /\ LET old_pixel == img_array[<<y, x>>]
           written == [img_array EXCEPT ![<<y, x>>] = Num(new_pixel(old_pixel))]
       IN  /\ img_array' = Diffuse(written, height, width, y, x, error(old_pixel))
           /\ dropped' = Add(dropped, Div16(MulK(error(old_pixel),
                                                 SkippedWeight(height, width, y, x))))
    /\ order' = Append(order, <<y, x>>)
    /\ x' = x + 1
    /\ UNCHANGED <<pc, image, height, width, y, binary_image>>
    /\ UNCHANGED mvars

\* line 24: the inner loop is exhausted
InnerExit ==
    /\ pc = "inner"
    /\ ~InRange(x, width)
    /\ y' = y + 1
    /\ pc' = "outer"
    /\ UNCHANGED <<image, img_array, height, width, x, binary_image, order, dropped>>
    /\ UNCHANGED mvars

\* lines 44-45: back to an 8 bit image, then to mode '1'
ConvertBack ==
    /\ pc = "convert"
    /\ binary_image' = [c \in DOMAIN img_array |-> convert1(uint8(img_array[c]))]
    /\ pc' = "dithered"
    /\ UNCHANGED <<image, img_array, height, width, y, x, order, dropped>>
    /\ UNCHANGED mvars

(* ------------------- main / convert_to_ereader_bmp -------------------- *)
\* lines 91-94: no input path on the command line
MainUsage ==
    /\ pc = "main"
    /\ Len(argv) < 2
    /\ stdout' = stdout \o <<"usage", "format">>
    /\ pc' = "exit"
    /\ UNCHANGED dvars
    /\ UNCHANGED <<argv, fs, input_path, mode, output_path, saved, traceback>>

\* lines 96-101: the input path does not exist
MainNotFound ==
    /\ pc = "main"
    /\ ~(Len(argv) < 2)
    /\ argv[2] \notin fs
    /\ input_path' = argv[2]
    /\ stdout' = Append(stdout, "not_found")
    /\ pc' = "exit"
    /\ UNCHANGED dvars
    /\ UNCHANGED <<argv, fs, mode, output_path, saved, traceback>>

\* lines 96-104: the input path exists, convert_to_ereader_bmp is called
MainConvert ==
    /\ pc = "main"
    /\ ~(Len(argv) < 2)
    /\ argv[2] \in fs
    /\ input_path' = argv[2]
    /\ pc' = "open"
    /\ UNCHANGED dvars
    /\ UNCHANGED <<argv, fs, mode, output_path, saved, stdout, traceback>>

\* line 55: Image.open succeeds; mode is the mode of the opened file
OpenOk ==
    /\ pc = "open"
    /\ \E m \in {"L", "RGB"} : mode' = m
    /\ pc' = "mode"
    /\ UNCHANGED dvars
    /\ UNCHANGED <<argv, fs, input_path, output_path, saved, stdout, traceback>>

\* lines 55-58: Image.open raises, the handler prints and returns
OpenFail ==
    /\ pc = "open"
    /\ stdout' = Append(stdout, "load_error")
    /\ pc' = "exit"
    /\ UNCHANGED dvars
    /\ UNCHANGED <<argv, fs, input_path, mode, output_path, saved, traceback>>

\* line 61: the image is already grayscale
ModeL ==
    /\ pc = "mode"
    /\ mode = "L"
    /\ pc' = "resize"
    /\ UNCHANGED dvars
    /\ UNCHANGED mvars

\* lines 61-62: img.convert('L') succeeds
ConvertLOk ==
    /\ pc = "mode"
    /\ mode # "L"
    /\ pc' = "resize"
    /\ UNCHANGED dvars
    /\ UNCHANGED mvars

\* lines 61-62: img.convert('L') raises while decoding, outside any try
ConvertLFail ==
    /\ pc = "mode"
    /\ mode # "L"
    /\ pc' = "raised"
    /\ UNCHANGED dvars
    /\ traceback' = "convert"
    /\ UNCHANGED <<argv, fs, input_path, mode, output_path, saved, stdout>>

\* lines 66-71: img.resize succeeds and the result is passed to the pass
ResizeOk ==
    /\ pc = "resize"
    /\ image' \in ResizedGrids(target_height, target_width)
    /\ pc' = "enter"
    /\ UNCHANGED <<img_array, height, width, y, x, binary_image, order, dropped>>
    /\ UNCHANGED mvars

\* line 68: img.resize raises while decoding, outside any try
ResizeFail ==
    /\ pc = "resize"
    /\ pc' = "raised"
    /\ UNCHANGED dvars
    /\ traceback' = "resize"
    /\ UNCHANGED <<argv, fs, input_path, mode, output_path, saved, stdout>>

\* lines 74-76: main passes no output path, so the default name is built
OutputName ==
    /\ pc = "dithered"
    /\ output_path' = default_output_path(input_path)
    /\ pc' = "save"
    /\ UNCHANGED dvars
    /\ UNCHANGED <<argv, fs, input_path, mode, saved, stdout, traceback>>

\* line 79: the bitmap is written
SaveOk ==
    /\ pc = "save"
    /\ saved' = saved \cup {output_path}
    /\ fs' = fs \cup {output_path}
    /\ pc' = "info"
    /\ UNCHANGED dvars
    /\ UNCHANGED <<argv, input_path, mode, output_path, stdout, traceback>>

\* line 79: save raises, outside any try; the file may have been created
SaveFail ==
    /\ pc = "save"
    /\ \E created \in BOOLEAN :
          /\ saved' = IF created THEN saved \cup {output_path} ELSE saved
          /\ fs' = IF created THEN fs \cup {output_path} ELSE fs
    /\ pc' = "raised"
    /\ UNCHANGED dvars
    /\ traceback' = "save"
    /\ UNCHANGED <<argv, input_path, mode, output_path, stdout>>

\* lines 82-86: the size is read and the two report lines are printed
InfoOk ==
    /\ pc = "info"
    /\ stdout' = stdout \o <<"converted", "info">>
    /\ pc' = "exit"
    /\ UNCHANGED dvars
    /\ UNCHANGED <<argv, fs, input_path, mode, output_path, saved, traceback>>

\* line 83: os.path.getsize raises, outside any try
InfoFail ==
    /\ pc = "info"
    /\ pc' = "raised"
    /\ UNCHANGED dvars
    /\ traceback' = "getsize"
    /\ UNCHANGED <<argv, fs, input_path, mode, output_path, saved, stdout>>

DitherIdle ==
    /\ img_array = <<>>
    /\ height = 0
    /\ width = 0
    /\ y = 0
    /\ x = 0
    /\ binary_image = <<>>
    /\ order = <<>>
    /\ dropped = Num(0)

MainIdle ==
    /\ input_path = <<>>
    /\ mode = "none"
    /\ output_path = <<>>
    /\ saved = {}
    /\ stdout = <<>>
    /\ traceback = "none"

\* floyd_steinberg_dither called on an arbitrary grid
Init ==
    /\ pc = "enter"
    /\ \E h \in 0 .. MaxH, w \in 0 .. MaxW : image \in InputGrids(h, w, MaxCells)
    /\ DitherIdle
    /\ argv = <<>>
    /\ fs = {}
    /\ MainIdle

\* the same call, on the smaller family of grids used for termination
InitFair ==
    /\ pc = "enter"
    /\ \E h \in 0 .. MaxH, w \in 0 .. MaxW : image \in InputGrids(h, w, FairCells)
    /\ DitherIdle
    /\ argv = <<>>
    /\ fs = {}
    /\ MainIdle

\* the program started from the command line
InitMain ==
    /\ pc = "main"
    /\ image = NoImage
    /\ DitherIdle
    /\ argv \in ArgvSet
    /\ fs \in {{}} \cup { {p} : p \in PathSet }
    /\ MainIdle

Next ==
    \/ Enter
    \/ OuterNext
    \/ OuterExit
    \/ Visit
    \/ InnerExit
    \/ ConvertBack

NextMain ==
    \/ MainUsage
    \/ MainNotFound
    \/ MainConvert
    \/ OpenOk
    \/ OpenFail
    \/ ModeL
    \/ ConvertLOk
    \/ ConvertLFail
    \/ ResizeOk
    \/ ResizeFail
    \/ Enter
    \/ OuterNext
    \/ OuterExit
    \/ Visit
    \/ InnerExit
    \/ ConvertBack
    \/ OutputName
    \/ SaveOk
    \/ SaveFail
    \/ InfoOk
    \/ InfoFail

Spec == Init /\ [][Next]_vars

\* a Python for loop over a range always takes its next step
FairSpec == InitFair /\ [][Next]_vars /\ WF_vars(Next)

SpecMain == InitMain /\ [][NextMain]_vars

(* ------------------------------ claims -------------------------------- *)
Shape(h, w) == image.shape = <<h, w>>

\* the inner loop is about to run its body on cell (y, x)
AtCell == pc = "inner" /\ InRange(x, width)

Binary(v) == v = Num(0) \/ v = Num(255)

\* C1: the pass on an h x w grid ends after exactly h*w cell visits (none
\* when h = 0 or w = 0, the grid staying empty), and then every cell holds
\* exactly 0 or 255.
C1_Totality ==
    /\ <>(pc = "dithered")
    /\ [](pc \in {"convert", "dithered"} =>
            /\ Len(order) = image.shape[1] * image.shape[2]
            /\ DOMAIN img_array = DOMAIN image.data
            /\ (image.shape[1] = 0 \/ image.shape[2] = 0 => order = <<>> /\ img_array = <<>>)
            /\ \A c \in Cells(image.shape[1], image.shape[2]) : Binary(img_array[c]))

C1_Witness ==
    pc = "dithered" /\ Shape(2, 2) /\ Len(order) = 4 /\ image.data[<<1, 1>>] = 100

\* C2: cells become the current pixel once each, in raster order, and no
\* step changes a cell that has already been visited.
C2_RasterOrder ==
    [][ /\ \A k \in 1 .. Len(order) :
              /\ Binary(img_array[order[k]])
              /\ img_array'[order[k]] = img_array[order[k]]
        /\ \A k \in 1 .. Len(order') :
              order'[k] = <<(k - 1) \div image.shape[2], (k - 1) % image.shape[2]>>
        /\ (pc' = "convert" => Len(order') = image.shape[1] * image.shape[2])
      ]_vars

C2_Witness ==
    /\ pc = "dithered" /\ Shape(3, 5)
    /\ Len(order) = 15 /\ order[5] = <<0, 4>> /\ order[6] = <<1, 0>>
    /\ \E c \in DOMAIN binary_image : binary_image[c] = 255
    /\ \E c \in DOMAIN binary_image : binary_image[c] = 0

\* C3: a step at (y, x) changes only (y, x) and the in-grid neighbours,
\* by error*7/16, 3/16, 5/16 and 1/16; neighbours outside the grid are
\* skipped; [[200]] gives [[255]].
C3_Expected(c) ==
    LET old == img_array[<<y, x>>]
        e == error(old)
    IN  IF c = <<y, x>> THEN Num(IF GtInt(old, 127) THEN 255 ELSE 0)
        ELSE IF c = <<y, x + 1>> THEN Add(img_array[c], Div16(MulK(e, 7)))
        ELSE IF c = <<y + 1, x - 1>> THEN Add(img_array[c], Div16(MulK(e, 3)))
        ELSE IF c = <<y + 1, x>> THEN Add(img_array[c], Div16(MulK(e, 5)))
        ELSE IF c = <<y + 1, x + 1>> THEN Add(img_array[c], Div16(MulK(e, 1)))
        ELSE img_array[c]

C3_Frame ==
    [][ /\ AtCell =>
              /\ DOMAIN img_array' = Cells(image.shape[1], image.shape[2])
              /\ \A c \in Cells(image.shape[1], image.shape[2]) :
                    img_array'[c] = C3_Expected(c)
        /\ (image = Uniform(1, 1, 200) /\ pc' = "dithered" =>
              binary_image' = [c \in Cells(1, 1) |-> 255])
      ]_vars

C3_Witness ==
    /\ pc = "inner" /\ Shape(2, 2) /\ Len(order) = 2
    /\ image.data[<<0, 1>>] = 200
    /\ img_array[<<1, 0>>] # Num(image.data[<<1, 0>>])

\* C4: the trace of the pass on [[100, 100], [100, 100]].
C4_Trace ==
    image = Uniform(2, 2, 100) =>
      /\ (AtCell /\ Len(order) = 0 =>
            /\ img_array[<<0, 0>>] = Num(100)
            /\ new_pixel(img_array[<<0, 0>>]) = 0
            /\ error(img_array[<<0, 0>>]) = Num(100))
      /\ (Len(order) = 1 =>
            /\ img_array = (<<0, 0>> :> Num(0)) @@ (<<0, 1>> :> Frac(143, 3, 4))
                           @@ (<<1, 0>> :> Frac(131, 1, 4)) @@ (<<1, 1>> :> Frac(106, 1, 4))
            /\ new_pixel(img_array[<<0, 1>>]) = 255
            /\ error(img_array[<<0, 1>>]) = Frac(-112, 3, 4))
      /\ (Len(order) = 2 =>
            /\ img_array = (<<0, 0>> :> Num(0)) @@ (<<0, 1>> :> Num(255))
                           @@ (<<1, 0>> :> Frac(110, 25, 64)) @@ (<<1, 1>> :> Frac(71, 31, 64))
            /\ new_pixel(img_array[<<1, 0>>]) = 0)
      /\ (Len(order) = 3 =>
            /\ img_array = (<<0, 0>> :> Num(0)) @@ (<<0, 1>> :> Num(255))
                           @@ (<<1, 0>> :> Num(0))
                           @@ (<<1, 1>> :> Add(Frac(71, 31, 64),
                                               Div16(MulK(Frac(110, 25, 64), 7))))
            /\ img_array[<<1, 1>>] = Frac(119, 799, 1024))
      /\ (Len(order) = 4 =>
            img_array = (<<0, 0>> :> Num(0)) @@ (<<0, 1>> :> Num(255))
                        @@ (<<1, 0>> :> Num(0)) @@ (<<1, 1>> :> Num(0)))
      /\ (pc = "dithered" =>
            binary_image = (<<0, 0>> :> 0) @@ (<<0, 1>> :> 255)
                           @@ (<<1, 0>> :> 0) @@ (<<1, 1>> :> 0))

C4_Witness == image = Uniform(2, 2, 100) /\ pc = "dithered" /\ Len(order) = 4

AllBlack == \A c \in DOMAIN binary_image : binary_image[c] = 0

Uniform127 ==
    /\ image.shape[1] >= 1 /\ image.shape[2] >= 1
    /\ image = Uniform(image.shape[1], image.shape[2], 127)

\* C5 as stated: a uniform grid of 127 of any size comes out all 0.
C5_Original == pc = "dithered" /\ Uniform127 => AllBlack

\* C5 as amended: in a uniform grid of 127 cell (0, 0), read as exactly
\* 127, comes out 0 because old > 127 is strict; the whole output is all 0
\* exactly for the 1x1 grid.
C5_Amended ==
    /\ (AtCell /\ img_array[<<y, x>>] = Num(127) => new_pixel(img_array[<<y, x>>]) = 0)
    /\ (pc = "dithered" /\ Uniform127 =>
          /\ binary_image[<<0, 0>>] = 0
          /\ (AllBlack <=> image.shape = <<1, 1>>))

C5_Witness == pc = "dithered" /\ Uniform127 /\ Shape(2, 3) /\ binary_image[<<0, 1>>] = 255

\* C6: uniform 255 gives all 255 and uniform 0 gives all 0; the error is 0
\* at every visited cell and no cell is ever changed by diffusion.
C6_Saturation ==
    \A v \in {0, 255} :
      image = Uniform(image.shape[1], image.shape[2], v) =>
        /\ (AtCell => error(img_array[<<y, x>>]) = Num(0))
        /\ (pc # "enter" => img_array = [c \in DOMAIN image.data |-> Num(v)])
        /\ (pc = "dithered" => binary_image = [c \in DOMAIN image.data |-> v])

C6_Witness == pc = "dithered" /\ image = Uniform(3, 5, 255) /\ Len(order) = 15

\* C7: no exception propagates out of convert_to_ereader_bmp or main.
C7_NoPropagation == pc # "raised"

\* the path without its extension, for the paths of PathSet
Stem(p) ==
    CASE p = <<"a", ".", "p">> -> <<"a">>
      [] p = <<"a">> -> <<"a">>
      [] p = <<".", "a">> -> <<".", "a">>
      [] p = <<"d", ".", "x", "/", "a">> -> <<"d", ".", "x", "/", "a">>
      [] p = <<"a", ".", "b", ".", "p">> -> <<"a", ".", "b">>
      [] p = <<"d", "/", ".", "a", ".", "p">> -> <<"d", "/", ".", "a">>

Untouched == mode = "none" /\ image = NoImage /\ order = <<>> /\ saved = {}

\* C8: without an argument main prints usage, with a missing path it
\* prints an error, and in both cases nothing is opened, dithered or
\* written; otherwise the only file written is the input path without its
\* extension plus "_dithered.bmp", and only after the pass has completed.
C8_Main ==
    /\ (Len(argv) < 2 =>
          /\ Untouched
          /\ pc \in {"main", "exit"}
          /\ (pc = "exit" => stdout = <<"usage", "format">>))
    /\ (Len(argv) >= 2 /\ argv[2] \notin fs =>
          /\ Untouched
          /\ pc \in {"main", "exit"}
          /\ (pc = "exit" => stdout = <<"not_found">>))
    /\ (saved # {} =>
          /\ saved = {Stem(argv[2]) \o Suffix}
          /\ Len(order) = target_height * target_width
          /\ \A c \in Cells(target_height, target_width) :
                Binary(img_array[c]) /\ binary_image[c] \in {0, 255})

C8_Witness ==
    /\ pc = "exit" /\ input_path = <<"a", ".", "b", ".", "p">>
    /\ saved = {<<"a", ".", "b">> \o Suffix}
    /\ stdout = <<"converted", "info">>

\* C9: with samples in [0, 255] the value read as old stays in
\* [-128, 383] and the error in [-128, 128].
C9_Bounds ==
    AtCell =>
      /\ Leq(Num(-128), img_array[<<y, x>>]) /\ Leq(img_array[<<y, x>>], Num(383))
      /\ Leq(Num(-128), error(img_array[<<y, x>>]))
      /\ Leq(error(img_array[<<y, x>>]), Num(128))

C9_Witness == AtCell /\ GtInt(img_array[<<y, x>>], 255)

RECURSIVE SumOver(_, _)
SumOver(arr, S) ==
    IF S = {} THEN Num(0)
    ELSE LET c == CHOOSE d \in S : TRUE
         IN  Add(arr[c], SumOver(arr, S \ {c}))

Sum(arr) == SumOver(arr, DOMAIN arr)

\* sixteenths of the error whose target cell lies outside the grid
C10_Lost ==
    LET T == { <<0, 1, 7>>, <<1, -1, 3>>, <<1, 0, 5>>, <<1, 1, 1>> }
        Out == { t \in T : <<y + t[1], x + t[2]>> \notin Cells(height, width) }
        RECURSIVE W(_)
        W(S) == IF S = {} THEN 0
                ELSE LET t == CHOOSE u \in S : TRUE IN t[3] + W(S \ {t})
    IN  W(Out)

\* C10: a step with all four neighbours inside the grid keeps the grid
\* sum; a step with skipped neighbours lowers it by error times the skipped
\* weights; the final sum is the input sum minus the total error dropped.
C10_Conservation ==
    /\ [](pc # "enter" =>
            Add(Sum(img_array), dropped) = Sum([c \in DOMAIN image.data |-> Num(image.data[c])]))
    /\ [][ AtCell =>
             /\ Add(Sum(img_array'), Div16(MulK(error(img_array[<<y, x>>]), C10_Lost)))
                  = Sum(img_array)
             /\ dropped' = Add(dropped, Div16(MulK(error(img_array[<<y, x>>]), C10_Lost)))
             /\ (C10_Lost = 0 <=> (x > 0 /\ x + 1 < width /\ y + 1 < height))
             /\ (C10_Lost = 0 => Sum(img_array') = Sum(img_array))
         ]_vars

C10_Witness ==
    /\ pc = "dithered" /\ Shape(2, 3)
    /\ dropped # Num(0)
    /\ Sum(img_array) # Sum([c \in DOMAIN image.data |-> Num(image.data[c])])
====
